---- MODULE Spec2Model ----
(***************************************************************************)
(* Model of src/robot.py: the task entry point my_task(name, age), run by  *)
(* a task host inside a process whose environment (os.environ) the host    *)
(* may change at any moment.  Each statement of my_task is one step; the   *)
(* evaluation of os.getenv on line 9 and the print of line 9 are separate  *)
(* steps, as they are separate operations of the interpreter.              *)
(*                                                                         *)
(* Python values are tagged records: a str, an int, None, an unbound local.*)
(* The outcome of evaluating an expression is a value or a raised          *)
(* exception.  Standard output is the sequence of text lines written by    *)
(* the current invocation; the byte encoding of the stream is the host's   *)
(* and is not modelled.                                                    *)
(***************************************************************************)
EXTENDS Integers, Sequences, FiniteSets, TLC

VARIABLES
    pc,        \* position of my_task: "idle", "L7", "L8", "L9", "L9p", "L10", "done", "raised"
    name,      \* argument name of the running invocation
    age,       \* argument age of the running invocation
    key,       \* result of os.getenv('API_KEY') held while line 9 is evaluated
    environ,   \* os.environ: a function from the names that are set to their values
    stdout,    \* the lines written by the current invocation
    exc,       \* the exception that ended the invocation, "" when none
    prev,      \* history: the inputs and output of the last completed invocation
    entryKey,  \* history: os.getenv('API_KEY') as it was at entry to my_task
    window,    \* history: the values API_KEY had from the first separator to line 3
    envReads   \* history: the environment names read by the current invocation

vars == <<pc, name, age, key, environ, stdout, exc, prev, entryKey, window, envReads>>

(***************************************************************************)
(* Python values and outcomes                                              *)
(***************************************************************************)
StrV(s) == [t |-> "str", s |-> s]
IntV(i) == [t |-> "int", i |-> i]
NoneV == [t |-> "None"]
Unbound == [t |-> "unbound"]
Raise(e) == [t |-> "raise", e |-> e]

(***************************************************************************)
(* The inputs the host may supply and the values the environment may hold  *)
(***************************************************************************)
Names == {"", "Ada"}
MaxAge == 2
AgeInts == (0 .. MaxAge) \cup {-12, 30, 105}
AgeTexts == {"", "30"}
Ages == {IntV(i) : i \in AgeInts} \cup {StrV(s) : s \in AgeTexts}
KeyValues == {"", "secret123"}
HomeValue == "/home/robot"
Environments ==
    {("HOME" :> HomeValue)} \cup {("HOME" :> HomeValue) @@ ("API_KEY" :> v) : v \in KeyValues}

(***************************************************************************)
(* str(int): the decimal rendering of an integer                           *)
(***************************************************************************)
Digit(d) ==
    CASE d = 0 -> "0" [] d = 1 -> "1" [] d = 2 -> "2" [] d = 3 -> "3" [] d = 4 -> "4"
      [] d = 5 -> "5" [] d = 6 -> "6" [] d = 7 -> "7" [] d = 8 -> "8" [] d = 9 -> "9"

RECURSIVE DigitsReversed(_)
\* Mutation: the digits joined least significant first.
DigitsReversed(n) == IF n < 10 THEN Digit(n) ELSE Digit(n % 10) \o DigitsReversed(n \div 10)

RECURSIVE Digits(_)
Digits(n) == IF n < 10 THEN Digit(n) ELSE Digits(n \div 10) \o Digit(n % 10)

IntToStr(i) == IF i < 0 THEN "-" \o Digits(-i) ELSE Digits(i)

(***************************************************************************)
(* A replacement field {v} of an f-string: format(v, ''), which is str(v)  *)
(* for a str, an int and None.                                             *)
(***************************************************************************)
\* Mutation: {v!r}, the repr of the value (a str in quotes).
FormatFieldRepr(v) ==
    CASE v.t = "str" -> StrV("'" \o v.s \o "'")
      [] v.t = "int" -> StrV(IntToStr(v.i))
      [] v.t = "None" -> StrV("None")

\* Mutation: the operand of a string concatenation ("..." + v), a TypeError unless v is a str.
FormatFieldConcat(v) == IF v.t = "str" THEN StrV(v.s) ELSE Raise("TypeError")

FormatField(v) ==
    CASE v.t = "str" -> StrV(v.s)
      [] v.t = "int" -> StrV(IntToStr(v.i))
      [] v.t = "None" -> StrV("None")

(***************************************************************************)
(* An f-string: its parts are evaluated left to right and joined; the      *)
(* first part that raises ends the evaluation.                             *)
(***************************************************************************)
RECURSIVE FString(_)
FString(parts) ==
    IF parts = <<>> THEN StrV("")
    ELSE LET h == Head(parts)
             r == FString(Tail(parts))
         IN  IF h.t = "raise" THEN h
             ELSE IF r.t = "raise" THEN r
             ELSE StrV(h.s \o r.s)

\* line 7: f"Hello {name} you are {age} years old"
GreetingExpr(n, a) ==
    FString(<<StrV("Hello "), FormatField(n), StrV(" you are "), FormatField(a),
              StrV(" years old")>>)

RECURSIVE Dashes(_)
Dashes(n) == IF n = 0 THEN "" ELSE "-" \o Dashes(n - 1)

\* Mutation: the separator underlines the greeting, one dash per character of it.
UnderlineSeparator == StrV(Dashes(Len(GreetingExpr(name, age).s)))

\* line 8: the string literal
FirstSeparator == StrV("--------------------------------")

\* Mutation: the second literal typed one dash short.
ShortSeparator == StrV("-------------------------------")

\* line 10: the string literal
SecondSeparator == StrV("--------------------------------")

\* Mutation: os.getenv(k) or None, an empty value taken for a missing one.
GetenvOrNone(env, k) == IF k \in DOMAIN env /\ env[k] # "" THEN StrV(env[k]) ELSE NoneV

\* Mutation: os.environ[k], a KeyError when k is not set.
GetenvIndex(env, k) == IF k \in DOMAIN env THEN StrV(env[k]) ELSE Raise("KeyError")

\* os.getenv(k): the value of k in os.environ, None when k is not set
Getenv(env, k) == IF k \in DOMAIN env THEN StrV(env[k]) ELSE NoneV

\* line 9: f"Key from Env: {os.getenv('API_KEY')}", the call already evaluated to v
KeyLineExpr(v) == FString(<<StrV("Key from Env: "), FormatField(v)>>)

\* history: what API_KEY is in the process environment now
ApiKeyNow == IF "API_KEY" \in DOMAIN environ THEN StrV(environ["API_KEY"]) ELSE NoneV

(***************************************************************************)
(* print(r): the line is appended to standard output and control moves to  *)
(* the next statement; an exception raised by the argument leaves my_task. *)
(***************************************************************************)
PrintTo(r, next) ==
    IF r.t = "raise"
    THEN /\ pc' = "raised"
         /\ exc' = r.e
         /\ UNCHANGED stdout
    ELSE /\ stdout' = Append(stdout, r.s)
         /\ pc' = next
         /\ UNCHANGED exc

Init ==
    /\ pc = "idle"
    /\ name = Unbound
    /\ age = Unbound
    /\ key = Unbound
    /\ environ \in Environments
    /\ stdout = <<>>
    /\ exc = ""
    /\ prev = [valid |-> FALSE]
    /\ entryKey = Unbound
    /\ window = {}
    /\ envReads = <<>>

(***************************************************************************)
(* The host calls my_task(n, a): a new invocation with its own output.     *)
(***************************************************************************)
Invoke(n, a) ==
    /\ pc \in {"idle", "done"}
    /\ pc' = "L7"
    /\ name' = StrV(n)
    /\ age' = a
    /\ key' = Unbound
    /\ stdout' = <<>>
    /\ exc' = ""
    /\ prev' = IF pc = "done"
               THEN [valid |-> TRUE, name |-> name, age |-> age, key |-> key, out |-> stdout]
               ELSE prev
    /\ entryKey' = ApiKeyNow
    /\ window' = {}
    /\ envReads' = <<>>
    /\ UNCHANGED environ

\* line 7: print(f"Hello {name} you are {age} years old")
Line7 ==
    /\ pc = "L7"
    /\ PrintTo(GreetingExpr(name, age), "L8")
    /\ UNCHANGED <<name, age, key, environ, prev, entryKey, window, envReads>>

\* line 8: print("--------------------------------")
Line8 ==
    /\ pc = "L8"
    /\ PrintTo(FirstSeparator, "L9")
    /\ window' = {ApiKeyNow}
    /\ UNCHANGED <<name, age, key, environ, prev, entryKey, envReads>>

\* Mutation: os.environ.pop('API_KEY', None), the read removes the variable.
Line9Pop ==
    /\ pc = "L9"
    /\ key' = ApiKeyNow
    /\ environ' = [k \in DOMAIN environ \ {"API_KEY"} |-> environ[k]]
    /\ envReads' = Append(envReads, "API_KEY")
    /\ pc' = "L9p"
    /\ UNCHANGED <<name, age, stdout, exc, prev, entryKey, window>>

\* Mutation: the value is the one looked up when my_task was entered.
Line9FromEntry ==
    /\ pc = "L9"
    /\ key' = entryKey
    /\ envReads' = Append(envReads, "API_KEY")
    /\ pc' = "L9p"
    /\ UNCHANGED <<name, age, environ, stdout, exc, prev, entryKey, window>>

\* line 9, the argument: os.getenv('API_KEY')
Line9Getenv ==
    /\ pc = "L9"
    /\ LET r == Getenv(environ, "API_KEY")
       IN  IF r.t = "raise"
           THEN pc' = "raised" /\ exc' = r.e /\ UNCHANGED key
           ELSE pc' = "L9p" /\ key' = r /\ UNCHANGED exc
    /\ envReads' = Append(envReads, "API_KEY")
    /\ UNCHANGED <<name, age, environ, stdout, prev, entryKey, window>>

\* Mutation: if key: print(...), the line left out when the value is None or empty.
Line9PrintIfSet ==
    /\ pc = "L9p"
    /\ IF key = NoneV \/ key = StrV("")
       THEN pc' = "L10" /\ UNCHANGED <<stdout, exc>>
       ELSE PrintTo(KeyLineExpr(key), "L10")
    /\ UNCHANGED <<name, age, key, environ, prev, entryKey, window, envReads>>

\* line 9, the call: print(f"Key from Env: {...}")
Line9Print ==
    /\ pc = "L9p"
    /\ PrintTo(KeyLineExpr(key), "L10")
    /\ UNCHANGED <<name, age, key, environ, prev, entryKey, window, envReads>>

\* line 10: print("--------------------------------"), then the function returns
Line10 ==
    /\ pc = "L10"
    /\ PrintTo(SecondSeparator, "done")
    /\ UNCHANGED <<name, age, key, environ, prev, entryKey, window, envReads>>

my_task == Line7 \/ Line8 \/ Line9Getenv \/ Line9Print \/ Line10

(***************************************************************************)
(* The process environment changes under the host: API_KEY is set to v,    *)
(* or is removed.                                                          *)
(***************************************************************************)
InWindow == pc \in {"L9", "L9p"}

HostSetenv(v) ==
    /\ environ' = ("API_KEY" :> v) @@ environ
    /\ environ' # environ
    /\ window' = IF InWindow THEN window \cup {StrV(v)} ELSE window
    /\ UNCHANGED <<pc, name, age, key, stdout, exc, prev, entryKey, envReads>>

HostUnsetenv ==
    /\ "API_KEY" \in DOMAIN environ
    /\ environ' = [k \in DOMAIN environ \ {"API_KEY"} |-> environ[k]]
    /\ window' = IF InWindow THEN window \cup {NoneV} ELSE window
    /\ UNCHANGED <<pc, name, age, key, stdout, exc, prev, entryKey, envReads>>

Next ==
    \/ \E n \in Names, a \in Ages : Invoke(n, a)
    \/ Line7
    \/ Line8
    \/ Line9Getenv
    \/ Line9Print
    \/ Line10
    \/ \E v \in KeyValues : HostSetenv(v)
    \/ HostUnsetenv

Spec == Init /\ [][Next]_vars

\* my_task runs to completion once called: its statements neither block nor wait.
FairSpec == Spec /\ WF_vars(my_task)

(***************************************************************************)
(* What the output is compared with: texts written out independently of    *)
(* the operators above.                                                    *)
(***************************************************************************)
SeparatorLength == 32
DashLine == Dashes(SeparatorLength)
DecimalText ==
    (-12 :> "-12") @@ (0 :> "0") @@ (1 :> "1") @@ (2 :> "2") @@ (3 :> "3") @@ (4 :> "4")
        @@ (30 :> "30") @@ (105 :> "105")
Verbatim(v) ==
    IF v.t = "str" THEN v.s ELSE IF v.t = "int" THEN DecimalText[v.i] ELSE "None"
Running == pc \in {"L7", "L8", "L9", "L9p", "L10"}
IsGreeting(l) ==
    \E n \in Names, a \in Ages :
        l = "Hello " \o n \o " you are " \o Verbatim(a) \o " years old"
IsKeyLine(l) == \E v \in KeyValues \cup {"None"} : l = "Key from Env: " \o v
LinesWrittenAt(p) ==
    CASE p \in {"idle", "L7"} -> {0}
      [] p = "L8" -> {1}
      [] p \in {"L9", "L9p"} -> {2}
      [] p = "L10" -> {3}
      [] p = "done" -> {4}
      [] OTHER -> {}

\* C1: once line 7 has run, the first line of the output is 'Hello ' + name +
\* ' you are ' + age + ' years old', name as given and age as given (an int in decimal).
C1_GreetingLine ==
    pc \in {"L8", "L9", "L9p", "L10", "done"} =>
        /\ Len(stdout) >= 1
        /\ stdout[1] = "Hello " \o name.s \o " you are " \o Verbatim(age) \o " years old"

C1_Witness ==
    /\ Len(stdout) >= 1
    /\ name = StrV("Ada")
    /\ age = IntV(-12)

\* C2: when API_KEY is set to V (the empty string included) while line 9 runs,
\* the third line is 'Key from Env: ' followed by V exactly.
C2_KeyLineShowsValue ==
    \A v \in KeyValues :
        (pc \in {"L10", "done"} /\ window = {StrV(v)}) =>
            /\ Len(stdout) >= 3
            /\ stdout[3] = "Key from Env: " \o v

C2_Witness ==
    /\ pc = "done"
    /\ window = {StrV("")}
    /\ stdout[3] = "Key from Env: "

\* C3: when API_KEY is unset while line 9 runs, my_task does not fail: the third
\* line is 'Key from Env: None', line 10 can still run, and the invocation ends
\* with four lines and no exception.
C3_UnsetIsTolerated ==
    window = {NoneV} =>
        /\ pc # "raised"
        /\ exc = ""
        /\ pc \in {"L10", "done"} => (Len(stdout) >= 3 /\ stdout[3] = "Key from Env: None")
        /\ pc = "L10" => ENABLED Line10
        /\ pc = "done" => Len(stdout) = 4

C3_Witness ==
    /\ pc = "done"
    /\ window = {NoneV}
    /\ Len(stdout) = 4
    /\ exc = ""

\* C4: the separator is the same fixed line of dashes, written exactly twice: as
\* line 2 and as line 4, around the 'Key from Env' line, whatever the inputs are.
C4_SeparatorTwice ==
    /\ Len(stdout) >= 2 => stdout[2] = DashLine
    /\ pc = "done" =>
        /\ stdout[4] = DashLine
        /\ stdout[4] = stdout[2]
        /\ {i \in 1..Len(stdout) : stdout[i] = DashLine} = {2, 4}
        /\ IsKeyLine(stdout[3])

C4_Witness ==
    /\ pc = "done"
    /\ stdout[2] = stdout[4]
    /\ name = StrV("")
    /\ key = StrV("secret123")

\* C5: every invocation writes exactly four lines, in the order greeting,
\* separator, environment line, separator, one per statement, and then stops:
\* no line is skipped, repeated or reordered, and no fifth line is written.
C5_FourLinesInOrder ==
    /\ Len(stdout) \in LinesWrittenAt(pc)
    /\ pc = "done" =>
        /\ IsGreeting(stdout[1])
        /\ stdout[2] = DashLine
        /\ IsKeyLine(stdout[3])
        /\ stdout[4] = DashLine
        /\ ~ ENABLED my_task

C5_Witness ==
    /\ pc = "done"
    /\ Len(stdout) = 4
    /\ prev.valid

\* C6: my_task raises no error under any input: whatever name and age are (empty
\* ones included) and whether API_KEY is set or not, a started invocation
\* reaches its normal exit.
C6_NoErrorRaised == [](pc # "raised" /\ exc = "") /\ (Running ~> pc = "done")

C6_Witness ==
    /\ pc = "done"
    /\ name = StrV("")
    /\ age = IntV(0)
    /\ key = NoneV

\* C7: a step of my_task only appends a line to standard output: it reads no
\* environment variable but API_KEY, and leaves the process environment and its
\* arguments name and age as they were.
C7_OnlyAppends ==
    /\ [](\A i \in 1..Len(envReads) : envReads[i] = "API_KEY")
    /\ [](pc = "done" => envReads = <<"API_KEY">>)
    /\ [][my_task =>
            /\ environ' = environ
            /\ name' = name
            /\ age' = age
            /\ \/ stdout' = stdout
               \/ /\ Len(stdout') = Len(stdout) + 1
                  /\ SubSeq(stdout', 1, Len(stdout)) = stdout]_vars

C7_Witness ==
    /\ pc = "done"
    /\ envReads = <<"API_KEY">>
    /\ environ = ("HOME" :> HomeValue) @@ ("API_KEY" :> "secret123")
    /\ entryKey = StrV("secret123")

\* C8: with name "Ada", age 30 and API_KEY "secret123" the whole output is the
\* greeting, a separator of exactly 32 dashes, the key line and the same separator.
C8_AdaScenario ==
    (pc = "done" /\ name = StrV("Ada") /\ age = IntV(30) /\ window = {StrV("secret123")}) =>
        stdout = <<"Hello Ada you are 30 years old", DashLine,
                   "Key from Env: secret123", DashLine>>

C8_Witness ==
    /\ pc = "done"
    /\ name = StrV("Ada")
    /\ age = IntV(30)
    /\ window = {StrV("secret123")}
    /\ entryKey = StrV("secret123")

\* C9: API_KEY is read once, and only after the greeting and the first separator
\* are written; the third line shows a value API_KEY had between the first
\* separator and the writing of the third line, whatever it was at entry or is later.
C9_ReadOnceAfterSeparator ==
    /\ Len(envReads) <= 1
    /\ envReads # <<>> => (Len(stdout) >= 2 /\ pc \notin {"L7", "L8", "L9"})
    /\ pc \in {"L10", "done"} =>
        \E v \in window : stdout[3] = "Key from Env: " \o Verbatim(v)

C9_Witness ==
    /\ pc = "done"
    /\ stdout[3] = "Key from Env: secret123"
    /\ entryKey = NoneV
    /\ ApiKeyNow = StrV("")

\* C10: the output is a function of (name, age, API_KEY) without interference:
\* two invocations with the same name and age have the same lines 1, 2 and 4,
\* and two invocations that read the same API_KEY have the same lines 2, 3 and 4.
C10_NonInterference ==
    (prev.valid /\ pc = "done") =>
        /\ (prev.name = name /\ prev.age = age) =>
             (prev.out[1] = stdout[1] /\ prev.out[2] = stdout[2] /\ prev.out[4] = stdout[4])
        /\ prev.key = key =>
             (prev.out[2] = stdout[2] /\ prev.out[3] = stdout[3] /\ prev.out[4] = stdout[4])

C10_Witness ==
    /\ prev.valid
    /\ pc = "done"
    /\ prev.name = name
    /\ prev.age = age
    /\ prev.key # key
    /\ prev.out[3] # stdout[3]
====
